---- MODULE Spec2Model ----
(***************************************************************************)
(* Model of errbot's BotPluginManager (errbot/plugin_manager.py): plugin  *)
(* discovery bookkeeping, dependency-aware activation, deactivation,      *)
(* reload, bulk activation and the blacklist / configuration registry.    *)
(*                                                                         *)
(* Plugin names are the integers 1..NumPlugins.  The manifests on disk are *)
(* the variable fs; they are chosen in Init and never change, so that every*)
(* dependency graph within the bounds is explored.  Every method of the    *)
(* manager is one action; the calls it makes are operators on a record st  *)
(* that carries the mutable part of the manager through the call.          *)
(***************************************************************************)
EXTENDS Integers, Sequences, FiniteSets, TLC

\* ------------------------------------------------------------------ bounds
NumPlugins == 3      \* plugin manifests on disk
MaxEdges == 3        \* declared dependencies, summed over all manifests
MaxFaulty == 1       \* manifests that fail a gate or whose hooks raise
NumFlows == 1        \* flow manifests on disk
NumRoots == 2        \* search roots handed to discovery
MaxOrder == 3        \* entries of the callback ordering the manager is built with
MaxChainEdges == 4   \* declared dependencies in the graphs of SpecChain
MaxPatch == 1        \* largest patch number of a declared interpreter version

Names == 1..NumPlugins
Missing == NumPlugins + 1   \* a plugin name that no manifest declares
FlowNames == 1..NumFlows
Roots == 1..NumRoots

\* ------------------------------------------------------------------ values
None == "None"
NoVersion == <<>>                 \* an absent version triple (None)
sys_version == <<3, 6, 0>>        \* sys.version_info[:3] of the running interpreter
current_version == <<5, 2, 0>>    \* version2tuple(VERSION)
PY3 == <<3, 0, 0>>                \* the literal (3, 0, 0) of check_python_plug_section

Wildcard == 0                     \* the None placeholder of plugins_callback_order
core_plugins == {1}               \* the CORE_PLUGINS allow-list the manager is built with

Range(seq) == {seq[i] : i \in DOMAIN seq}

\* d[k] = v on a dict.
Put(d, k, v) == [x \in DOMAIN d \cup {k} |-> IF x = k THEN v ELSE d[x]]

\* del(d[k]) on a dict.
Del(d, k) == [x \in DOMAIN d \ {k} |-> d[x]]

\* s.startswith(prefix) on strings, as sequences of characters.
startswith(s, prefix) ==
    Len(prefix) <= Len(s) /\ SubSeq(s, 1, Len(prefix)) = prefix

\* Python's ordering of two version triples.
TupleLess(a, b) ==
    \/ a[1] < b[1]
    \/ a[1] = b[1] /\ a[2] < b[2]
    \/ a[1] = b[1] /\ a[2] = b[2] /\ a[3] < b[3]

\* What the class in a plugin's module does in its hooks (class.hooks):
\*   "ok"               every hook returns
\*   "activate_raises"  activate() raises before the instance is marked activated
\*   "connect_raises"   activate() returns, callback_connect() raises

VARIABLES
    fs,            \* the .plug manifests on disk, in glob order
    plugin_places, \* self.plugin_places: the roots of the last discovery
    plugins_callback_order,  \* self.plugins_callback_order
    fsflows,       \* the .flow manifests on disk, in glob order
    plugin_infos,  \* self.plugin_infos: name -> PluginInfo
    plugins,       \* self.plugins: name -> BotPlugin instance
    plugins_keys,  \* insertion order of self.plugins
    flows,         \* self.flows: name -> Flow instance
    bl_plugins,    \* self[BL_PLUGINS]
    configs,       \* self[CONFIGS]
    templates,     \* plugins whose template path is registered
    ret            \* the last call: what was called and how it ended

vars == <<fs, fsflows, plugin_places, plugins_callback_order, plugin_infos, plugins,
          plugins_keys, flows, bl_plugins, configs, templates, ret>>

\* ------------------------------------------------------------------ exceptions
NoExc == "none"
\* PluginActivationException and its subclasses, by the raise that creates them.
ActivationExceptions ==
    {"NotFound", "AlreadyActive", "Incompatible", "Circular", "UnknownDependency",
     "PluginConfigurationException", "FailedToStart", "FlowNotFound",
     "FlowAlreadyActive", "FlowAlreadyInactive"}

PluginActivationException(kind) == kind \in ActivationExceptions

Raise(st, kind) == [st EXCEPT !.exc = kind]

\* ------------------------------------------------------------------ gates
check_python_plug_section(plugin_info) ==
    LET version == plugin_info.python_version IN
    IF version = NoVersion THEN TRUE
    ELSE IF TupleLess(version, PY3) THEN FALSE
    ELSE IF ~TupleLess(version, sys_version) THEN FALSE
    ELSE TRUE

\* TRUE when check_errbot_version returns, FALSE when it raises
\* IncompatiblePluginException.
check_errbot_version(plugin_info) ==
    LET min_version == plugin_info.errbot_minversion
        max_version == plugin_info.errbot_maxversion
    IN  /\ ~(min_version # NoVersion /\ TupleLess(current_version, min_version))
        /\ ~(max_version # NoVersion /\ TupleLess(max_version, current_version))

\* ------------------------------------------------------------------ instances
\* A fresh instance, as the plugin class's constructor leaves it.
BotPlugin(name, clazz) ==
    [name |-> name, is_activated |-> FALSE, dependencies |-> <<>>,
     config |-> None, class |-> clazz]

\* plugin.activate(): marks the instance activated.
plugin_activate(plugin) == [plugin EXCEPT !.is_activated = TRUE]

\* plugin.deactivate(): marks the instance deactivated.
plugin_deactivate(plugin) == [plugin EXCEPT !.is_activated = FALSE]

\* Flow instance, flow.activate() and flow.deactivate().
BotFlow(name, clazz) == [name |-> name, is_activated |-> FALSE, class |-> clazz]

\* The mutable part of the manager, as a call sees and changes it.
\* Beside the fields of the manager it carries the exception in flight (exc),
\* the dep_track set of the current activate_plugin call, the value being
\* returned (errors, feedback, result), and a record of what the call did:
\*   started   the plugins whose hook sequence was started, in order
\*   unready   those started while a declared dependency was not activated
\*   visits    <<name, i, act>>: the loop of name looked at its i-th declared
\*             dependency; act when it found it loaded and not activated
\*   failed    <<name, i>>: an exception left the loop of name at its i-th
\*             dependency; innermost level first
\*   warnings  the plugins deactivate_plugin logged as already deactivated
\*   invalid   the plugins _activate_plugin was entered on while activated
Manager ==
    [plugin_places |-> plugin_places, plugins_callback_order |-> plugins_callback_order,
     plugin_infos |-> plugin_infos, plugins |-> plugins, plugins_keys |-> plugins_keys,
     flows |-> flows, templates |-> templates, exc |-> NoExc,
     dep_track |-> {}, started |-> <<>>, errors |-> <<>>, warnings |-> {},
     unready |-> {}, visits |-> <<>>, failed |-> <<>>, feedback |-> <<>>,
     result |-> <<>>, invalid |-> {}]

\* ------------------------------------------------------------------ deactivation
\* The variant that also deactivates the activated plugins declaring name.
deactivate_plugin_cascade(name, st) ==
    IF ~st.plugins[name].is_activated
    THEN [st EXCEPT !.warnings = @ \cup {name}]
    ELSE [st EXCEPT
            !.plugins = [q \in DOMAIN st.plugins |->
                IF q = name
                   \/ \E i \in DOMAIN st.plugin_infos[q].dependencies :
                         st.plugin_infos[q].dependencies[i] = name
                THEN [st.plugins[q] EXCEPT !.is_activated = FALSE]
                ELSE st.plugins[q]],
            !.templates = @ \ {name}]

deactivate_plugin(name, st) ==
    IF ~st.plugins[name].is_activated
    THEN [st EXCEPT !.warnings = @ \cup {name}]
    ELSE [st EXCEPT !.plugins[name] = plugin_deactivate(@),
                    !.templates = @ \ {name}]

\* ------------------------------------------------------------------ activation
get_plugin_configuration(name) == configs[name]

_activate_plugin(name, st) ==
    LET plugin == st.plugins[name] IN
    IF plugin.is_activated
    THEN Raise([st EXCEPT !.invalid = @ \cup {name}], "Exception")
    ELSE
    LET ready == \A d \in Range(st.plugin_infos[name].dependencies) :
                     d \in DOMAIN st.plugins /\ st.plugins[d].is_activated
        s0 == [st EXCEPT !.started = Append(@, name),
                         !.unready = IF ready THEN @ ELSE @ \cup {name}]
        config == get_plugin_configuration(name)
    IN
    IF plugin.class.template /\ config # None /\ config = "bad"
    THEN Raise([s0 EXCEPT !.plugins[name].config = None],
               "PluginConfigurationException")
    ELSE
    LET s1 == [s0 EXCEPT !.plugins[name].config = config]
        s2 == [s1 EXCEPT !.templates = @ \cup {name}]
        s3 == [s2 EXCEPT !.plugins[name] = plugin_activate(@)]
    IN  CASE plugin.class.hooks = "activate_raises" ->
               Raise(deactivate_plugin(name, s2), "Exception")
          [] plugin.class.hooks = "connect_raises" ->
               Raise(deactivate_plugin(name, s3), "Exception")
          [] OTHER -> s3

RECURSIVE _activate_plugin_dependencies(_, _), dependencies_loop(_, _, _)

\* The variant that skips a dependency found in dep_track instead of raising.
dependencies_loop_skip(name, i, st) ==
    LET depends_on == st.plugin_infos[name].dependencies IN
    IF st.exc # NoExc \/ i > Len(depends_on) THEN st
    ELSE
    LET dep_name == depends_on[i]
        act == /\ dep_name \notin st.dep_track
               /\ dep_name \in DOMAIN st.plugins
               /\ ~st.plugins[dep_name].is_activated
        sv == [st EXCEPT !.visits = Append(@, <<name, i, act>>)]
        r == IF dep_name \in sv.dep_track THEN sv
             ELSE IF dep_name \notin DOMAIN sv.plugins THEN Raise(sv, "UnknownDependency")
             ELSE IF ~sv.plugins[dep_name].is_activated
             THEN LET s1 == _activate_plugin_dependencies(dep_name, sv) IN
                  IF s1.exc = NoExc THEN _activate_plugin(dep_name, s1) ELSE s1
             ELSE sv
    IN  IF r.exc # NoExc THEN [r EXCEPT !.failed = Append(@, <<name, i>>)]
        ELSE dependencies_loop(name, i + 1, r)

\* The variant that starts a dependency's hooks before resolving what it
\* depends on.
dependencies_loop_eager(name, i, st) ==
    LET depends_on == st.plugin_infos[name].dependencies IN
    IF st.exc # NoExc \/ i > Len(depends_on) THEN st
    ELSE
    LET dep_name == depends_on[i]
        act == /\ dep_name \notin st.dep_track
               /\ dep_name \in DOMAIN st.plugins
               /\ ~st.plugins[dep_name].is_activated
        sv == [st EXCEPT !.visits = Append(@, <<name, i, act>>)]
        r == IF dep_name \in sv.dep_track THEN Raise(sv, "Circular")
             ELSE IF dep_name \notin DOMAIN sv.plugins THEN Raise(sv, "UnknownDependency")
             ELSE IF ~sv.plugins[dep_name].is_activated
             THEN LET s1 == _activate_plugin(dep_name, sv) IN
                  IF s1.exc = NoExc THEN _activate_plugin_dependencies(dep_name, s1) ELSE s1
             ELSE sv
    IN  IF r.exc # NoExc THEN [r EXCEPT !.failed = Append(@, <<name, i>>)]
        ELSE dependencies_loop(name, i + 1, r)

\* The variant whose loop goes on with the next dependency after a failure of
\* one it had to activate.
dependencies_loop_continue(name, i, st) ==
    LET depends_on == st.plugin_infos[name].dependencies IN
    IF st.exc # NoExc \/ i > Len(depends_on) THEN st
    ELSE
    LET dep_name == depends_on[i]
        act == /\ dep_name \notin st.dep_track
               /\ dep_name \in DOMAIN st.plugins
               /\ ~st.plugins[dep_name].is_activated
        sv == [st EXCEPT !.visits = Append(@, <<name, i, act>>)]
        r == IF dep_name \in sv.dep_track THEN Raise(sv, "Circular")
             ELSE IF dep_name \notin DOMAIN sv.plugins THEN Raise(sv, "UnknownDependency")
             ELSE IF ~sv.plugins[dep_name].is_activated
             THEN LET s1 == _activate_plugin_dependencies(dep_name, sv) IN
                  IF s1.exc = NoExc THEN _activate_plugin(dep_name, s1) ELSE s1
             ELSE sv
    IN  IF r.exc # NoExc
        THEN LET rest == dependencies_loop(name, i + 1, [r EXCEPT !.exc = NoExc]) IN
             [rest EXCEPT !.exc = r.exc, !.failed = Append(r.failed, <<name, i>>)]
        ELSE dependencies_loop(name, i + 1, r)

\* The variant without the 'if not dep_plugin.is_activated' test of line 505.
dependencies_loop_unguarded(name, i, st) ==
    LET depends_on == st.plugin_infos[name].dependencies IN
    IF st.exc # NoExc \/ i > Len(depends_on) THEN st
    ELSE
    LET dep_name == depends_on[i]
        act == /\ dep_name \notin st.dep_track
               /\ dep_name \in DOMAIN st.plugins
               /\ ~st.plugins[dep_name].is_activated
        sv == [st EXCEPT !.visits = Append(@, <<name, i, act>>)]
        r == IF dep_name \in sv.dep_track THEN Raise(sv, "Circular")
             ELSE IF dep_name \notin DOMAIN sv.plugins THEN Raise(sv, "UnknownDependency")
             ELSE LET s1 == _activate_plugin_dependencies(dep_name, sv) IN
                  IF s1.exc = NoExc THEN _activate_plugin(dep_name, s1) ELSE s1
    IN  IF r.exc # NoExc THEN [r EXCEPT !.failed = Append(@, <<name, i>>)]
        ELSE dependencies_loop(name, i + 1, r)

\* The for loop of _activate_plugin_dependencies, from the i-th declared
\* dependency on; an exception ends it.
dependencies_loop(name, i, st) ==
    LET depends_on == st.plugin_infos[name].dependencies IN
    IF st.exc # NoExc \/ i > Len(depends_on) THEN st
    ELSE
    LET dep_name == depends_on[i]
        act == /\ dep_name \notin st.dep_track
               /\ dep_name \in DOMAIN st.plugins
               /\ ~st.plugins[dep_name].is_activated
        sv == [st EXCEPT !.visits = Append(@, <<name, i, act>>)]
        r == IF dep_name \in sv.dep_track THEN Raise(sv, "Circular")
             ELSE IF dep_name \notin DOMAIN sv.plugins THEN Raise(sv, "UnknownDependency")
             ELSE IF ~sv.plugins[dep_name].is_activated
             THEN LET s1 == _activate_plugin_dependencies(dep_name, sv) IN
                  IF s1.exc = NoExc THEN _activate_plugin(dep_name, s1) ELSE s1
             ELSE sv
    IN  IF r.exc # NoExc THEN [r EXCEPT !.failed = Append(@, <<name, i>>)]
        ELSE dependencies_loop(name, i + 1, r)

_activate_plugin_dependencies(name, st) ==
    dependencies_loop(name, 1, [st EXCEPT !.dep_track = @ \cup {name}])

\* The variant without the 'already activate' check of line 472.
activate_plugin_try_unchecked(name, st) ==
    IF name \notin DOMAIN st.plugins THEN Raise(st, "NotFound")
    ELSE
    LET plugin_info == st.plugin_infos[name] IN
    IF ~check_python_plug_section(plugin_info) THEN st
    ELSE IF ~check_errbot_version(plugin_info) THEN Raise(st, "Incompatible")
    ELSE
    LET s1 == _activate_plugin_dependencies(name, [st EXCEPT !.dep_track = {}]) IN
    IF s1.exc # NoExc THEN s1
    ELSE _activate_plugin(name,
             [s1 EXCEPT !.plugins[name].dependencies = plugin_info.dependencies])

\* The body of the try block of activate_plugin.
activate_plugin_try(name, st) ==
    IF name \notin DOMAIN st.plugins THEN Raise(st, "NotFound")
    ELSE IF st.plugins[name].is_activated THEN Raise(st, "AlreadyActive")
    ELSE
    LET plugin_info == st.plugin_infos[name] IN
    IF ~check_python_plug_section(plugin_info) THEN st
    ELSE IF ~check_errbot_version(plugin_info) THEN Raise(st, "Incompatible")
    ELSE
    LET s1 == _activate_plugin_dependencies(name, [st EXCEPT !.dep_track = {}]) IN
    IF s1.exc # NoExc THEN s1
    ELSE _activate_plugin(name,
             [s1 EXCEPT !.plugins[name].dependencies = plugin_info.dependencies])

activate_plugin(name, st) ==
    LET r == activate_plugin_try(name, st) IN
    IF r.exc = NoExc \/ PluginActivationException(r.exc) THEN r
    ELSE Raise(r, "FailedToStart")

\* ------------------------------------------------------------------ flows
activate_flow(name, st) ==
    IF name \notin DOMAIN st.flows THEN Raise(st, "FlowNotFound")
    ELSE
    LET flow == st.flows[name] IN
    IF flow.is_activated THEN Raise(st, "FlowAlreadyActive")
    ELSE IF flow.class.hooks = "activate_raises" THEN Raise(st, "Exception")
    ELSE [st EXCEPT !.flows[name].is_activated = TRUE]

deactivate_flow(name, st) ==
    LET flow == st.flows[name] IN
    IF ~flow.is_activated THEN Raise(st, "FlowAlreadyInactive")
    ELSE [st EXCEPT !.flows[name].is_activated = FALSE]

\* ------------------------------------------------------------------ reload
\* The class named type(plugin).__name__ in the freshly loaded module.
new_class(name, st) == st.plugin_infos[name].class

reload_plugin_by_name(name, st) ==
    LET plugin == st.plugins[name]
        s1 == IF plugin.is_activated THEN deactivate_plugin(name, st) ELSE st
        s2 == [s1 EXCEPT !.plugins[name].class = new_class(name, s1)]
    IN  activate_plugin(name, s2)

\* ------------------------------------------------------------------ blacklist
get_blacklisted_plugin == bl_plugins

is_plugin_blacklisted(name) == name \in get_blacklisted_plugin

\* ------------------------------------------------------------------ bulk activation
\* The variant without the except clause: the exception leaves the pass.
CatchException_propagate(st, line) == st

\* except Exception as e: the error is turned into a line of the returned text.
CatchException(st, line) ==
    IF st.exc = NoExc THEN st
    ELSE [st EXCEPT !.exc = NoExc, !.errors = Append(@, line)]

RECURSIVE plugins_loop(_, _)
\* The first for loop of activate_non_started_plugins, from the i-th key on.
plugins_loop(i, st) ==
    IF st.exc # NoExc \/ i > Len(st.plugins_keys) THEN st
    ELSE
    LET name == st.plugins_keys[i] IN
    IF is_plugin_blacklisted(name)
    THEN plugins_loop(i + 1,
             [st EXCEPT !.errors = Append(@, [kind |-> "Notice", name |-> name])])
    ELSE IF ~st.plugins[name].is_activated
    THEN plugins_loop(i + 1,
             CatchException(activate_plugin(name, st),
                            [kind |-> "Error", name |-> name]))
    ELSE plugins_loop(i + 1, st)

RECURSIVE flows_loop(_, _)
\* The second for loop, over self.flows; flows are registered in name order.
flows_loop(names, st) ==
    IF st.exc # NoExc \/ names = {} THEN st
    ELSE
    LET name == CHOOSE n \in names : \A m \in names : n <= m IN
    IF ~st.flows[name].is_activated
    THEN flows_loop(names \ {name},
             CatchException(activate_flow(name, st),
                            [kind |-> "FlowError", name |-> name]))
    ELSE flows_loop(names \ {name}, st)

activate_non_started_plugins(st) ==
    LET s1 == plugins_loop(1, st) IN flows_loop(DOMAIN s1.flows, s1)

\* ------------------------------------------------------------------ discovery
\* The manifests a directory tree can hold.  A .plug file is the PluginInfo
\* that PluginInfo.load returns for it, with what loading it does (load):
\*   "ok"            the module defines one plugin class, which instantiates
\*   "parse_error"   PluginInfo.load raises
\*   "no_class"      load_plugin_classes finds no plugin class
\*   "two_classes"   load_plugin_classes finds two; the first instantiates
\*   "init_raises"   the constructor of the class raises
\* class is the first plugin class of the module, module the file it is in.
CleanClass == [hooks |-> "ok", template |-> FALSE, module |-> 0]

PluginInfo(name, dependencies) ==
    [name |-> name, dependencies |-> dependencies, python_version |-> NoVersion,
     errbot_minversion |-> NoVersion, errbot_maxversion |-> NoVersion,
     core |-> FALSE, location |-> 1, load |-> "ok", class |-> CleanClass]

RECURSIVE load_loop(_, _, _)
\* The variant without the 'already loaded' check of line 256.
load_loop_overwrite(path, i, st) ==
    IF i > Len(fs) THEN st
    ELSE IF fs[i].location # path THEN load_loop(path, i + 1, st)
    ELSE
    LET plugin_info == fs[i]
        name == plugin_info.name
    IN
    IF plugin_info.load = "parse_error"
    THEN load_loop(path, i + 1, [st EXCEPT !.feedback = Put(@, path, "traceback")])
    ELSE
    LET s1 == [st EXCEPT !.plugin_infos = Put(@, name, plugin_info)] IN
    IF core_plugins # {} /\ plugin_info.core /\ name \notin core_plugins
    THEN load_loop(path, i + 1, s1)
    ELSE IF plugin_info.load = "no_class"
    THEN load_loop(path, i + 1, [s1 EXCEPT !.feedback = Put(@, path, "no_plugin")])
    ELSE
    LET s2 == IF plugin_info.load = "two_classes"
              THEN [s1 EXCEPT !.feedback = Put(@, path, "more_than_one")]
              ELSE s1
    IN
    IF plugin_info.load = "init_raises"
    THEN load_loop(path, i + 1, [s2 EXCEPT !.feedback = Put(@, path, "traceback")])
    ELSE load_loop(path, i + 1,
             [s2 EXCEPT !.plugins = Put(@, name, BotPlugin(name, plugin_info.class)),
                        !.plugins_keys = IF name \in DOMAIN s2.plugins THEN @
                                         ELSE Append(@, name)])

\* The variant without the except clause of line 280: the exception of a
\* manifest leaves the loop.
load_loop_raise(path, i, st) ==
    IF st.exc # NoExc \/ i > Len(fs) THEN st
    ELSE IF fs[i].location # path THEN load_loop(path, i + 1, st)
    ELSE
    LET plugin_info == fs[i]
        name == plugin_info.name
    IN
    IF plugin_info.load = "parse_error" THEN Raise(st, "Exception")
    ELSE IF name \in DOMAIN st.plugin_infos THEN load_loop(path, i + 1, st)
    ELSE
    LET s1 == [st EXCEPT !.plugin_infos = Put(@, name, plugin_info)] IN
    IF core_plugins # {} /\ plugin_info.core /\ name \notin core_plugins
    THEN load_loop(path, i + 1, s1)
    ELSE IF plugin_info.load = "no_class"
    THEN load_loop(path, i + 1, [s1 EXCEPT !.feedback = Put(@, path, "no_plugin")])
    ELSE
    LET s2 == IF plugin_info.load = "two_classes"
              THEN [s1 EXCEPT !.feedback = Put(@, path, "more_than_one")]
              ELSE s1
    IN
    IF plugin_info.load = "init_raises" THEN Raise(s2, "Exception")
    ELSE load_loop(path, i + 1,
             [s2 EXCEPT !.plugins = Put(@, name, BotPlugin(name, plugin_info.class)),
                        !.plugins_keys = IF name \in DOMAIN s2.plugins THEN @
                                         ELSE Append(@, name)])

\* The for loop of _load_plugins_generic over the .plug files under path, from
\* the i-th file of the tree on (path.glob yields the files under path only).
load_loop(path, i, st) ==
    IF i > Len(fs) THEN st
    ELSE IF fs[i].location # path THEN load_loop(path, i + 1, st)
    ELSE
    LET plugin_info == fs[i]
        name == plugin_info.name
    IN
    IF plugin_info.load = "parse_error"
    THEN load_loop(path, i + 1, [st EXCEPT !.feedback = Put(@, path, "traceback")])
    ELSE IF name \in DOMAIN st.plugin_infos THEN load_loop(path, i + 1, st)
    ELSE
    LET s1 == [st EXCEPT !.plugin_infos = Put(@, name, plugin_info)] IN
    IF core_plugins # {} /\ plugin_info.core /\ name \notin core_plugins
    THEN load_loop(path, i + 1, s1)
    ELSE IF plugin_info.load = "no_class"
    THEN load_loop(path, i + 1, [s1 EXCEPT !.feedback = Put(@, path, "no_plugin")])
    ELSE
    LET s2 == IF plugin_info.load = "two_classes"
              THEN [s1 EXCEPT !.feedback = Put(@, path, "more_than_one")]
              ELSE s1
    IN
    IF plugin_info.load = "init_raises"
    THEN load_loop(path, i + 1, [s2 EXCEPT !.feedback = Put(@, path, "traceback")])
    ELSE load_loop(path, i + 1,
             [s2 EXCEPT !.plugins = Put(@, name, BotPlugin(name, plugin_info.class)),
                        !.plugins_keys = IF name \in DOMAIN s2.plugins THEN @
                                         ELSE Append(@, name)])

RECURSIVE load_flows_loop(_, _, _)
\* The same loop over the .flow files under path; the flow manifests of the
\* model are all well formed.
load_flows_loop(path, i, st) ==
    IF i > Len(fsflows) THEN st
    ELSE IF fsflows[i].location # path THEN load_flows_loop(path, i + 1, st)
    ELSE
    LET name == fsflows[i].name IN
    IF name \in DOMAIN st.flows THEN load_flows_loop(path, i + 1, st)
    ELSE load_flows_loop(path, i + 1,
             [st EXCEPT !.flows = Put(@, name, BotFlow(name, fsflows[i].class))])

RECURSIVE roots_loop(_, _)
\* The for loop of load_plugins over self.plugin_places, from the k-th root on.
roots_loop(k, st) ==
    IF st.exc # NoExc \/ k > Len(st.plugin_places) THEN st
    ELSE LET path == st.plugin_places[k] IN
         roots_loop(k + 1, load_flows_loop(path, 1, load_loop(path, 1, st)))

load_plugins(st) == roots_loop(1, st)

\* collect_roots(repo_roots): every call is handed the same roots; no root
\* holds a requirements.txt.
all_roots == [r \in 1..NumRoots |-> r]

\* ------------------------------------------------------------------ ordered broadcast
RECURSIVE order_loop(_, _)
\* The for loop of get_all_active_plugin_objects_ordered, from the i-th entry
\* of self.plugins_callback_order on; st.result is all_plugins.
order_loop(i, st) ==
    LET order == st.plugins_callback_order IN
    IF st.exc # NoExc \/ i > Len(order) THEN st
    ELSE
    LET name == order[i] IN
    IF name = Wildcard
    THEN order_loop(i + 1,
             [st EXCEPT !.result = @ \o SelectSeq(st.plugins_keys,
                 LAMBDA n : n \notin Range(order) /\ st.plugins[n].is_activated)])
    ELSE IF name \notin DOMAIN st.plugins THEN Raise(st, "KeyError")
    ELSE IF st.plugins[name].is_activated
    THEN order_loop(i + 1, [st EXCEPT !.result = Append(@, name)])
    ELSE order_loop(i + 1, st)

get_all_active_plugin_objects_ordered(st) ==
    LET s1 == IF Wildcard \notin Range(st.plugins_callback_order)
              THEN [st EXCEPT !.plugins_callback_order = Append(@, Wildcard)]
              ELSE st
    IN  order_loop(1, s1)

\* ------------------------------------------------------------------ removal
\* The path of a search root: root 1 is the directory "p", root 2 its sibling
\* "pp", and so on; no root lies inside another.
root_path(root) == [i \in 1..root |-> "p"]

\* str(pi.location): the manifest lies in the directory of its root.
location_str(plugin_info) == root_path(plugin_info.location) \o <<"/">>

remove_plugin(name, st) ==
    LET s1 == IF st.plugins[name].is_activated THEN deactivate_plugin(name, st)
              ELSE st
    IN  [s1 EXCEPT !.plugins = Del(@, name),
                   !.plugins_keys = SelectSeq(@, LAMBDA k : k # name),
                   !.plugin_infos = Del(@, name)]

\* The for loop of remove_plugins_from_path over old_plugin_infos.items(),
\* which yields the names in the sequence order, from its i-th item on.
RECURSIVE remove_loop(_, _, _, _, _)
remove_loop(root, old_plugin_infos, order, i, st) ==
    IF i > Len(order) THEN st
    ELSE
    LET name == order[i]
        pi == old_plugin_infos[name]
    IN
    IF startswith(location_str(pi), root_path(root))
    THEN IF name \notin DOMAIN st.plugins THEN Raise(st, "KeyError")
         ELSE remove_loop(root, old_plugin_infos, order, i + 1, remove_plugin(name, st))
    ELSE remove_loop(root, old_plugin_infos, order, i + 1, st)

remove_plugins_from_path(root, order, st) ==
    remove_loop(root, st.plugin_infos, order, 1, st)

\* The orders in which a dict with these keys can yield them.
Orderings(keys) ==
    {o \in [1..Cardinality(keys) -> keys] : \A i, j \in DOMAIN o : i # j => o[i] # o[j]}

\* ------------------------------------------------------------------ actions
\* Writes a finished call back to the manager's state.
Commit(st, op, name) ==
    /\ plugin_places' = st.plugin_places
    /\ plugins_callback_order' = st.plugins_callback_order
    /\ plugin_infos' = st.plugin_infos
    /\ plugins' = st.plugins
    /\ plugins_keys' = st.plugins_keys
    /\ flows' = st.flows
    /\ templates' = st.templates
    /\ ret' = [op |-> op, name |-> name, exc |-> st.exc, started |-> st.started,
               errors |-> st.errors, warnings |-> st.warnings,
               unready |-> st.unready, visits |-> st.visits, failed |-> st.failed,
               feedback |-> st.feedback,
               result |-> IF st.exc = NoExc THEN st.result ELSE <<>>,
               invalid |-> st.invalid]

\* A call that changes the store only.
Stored(op, name) ==
    /\ ret' = [op |-> op, name |-> name, exc |-> NoExc, started |-> <<>>,
               errors |-> <<>>, warnings |-> {}, unready |-> {}, visits |-> <<>>,
               failed |-> <<>>, feedback |-> <<>>, result |-> <<>>,
               invalid |-> {}]
    /\ UNCHANGED <<fs, fsflows, plugin_places, plugins_callback_order, plugin_infos,
                   plugins, plugins_keys, flows, templates>>

update_plugin_places ==
    /\ Commit(load_plugins([Manager EXCEPT !.plugin_places = all_roots]),
              "update_plugin_places", 0)
    /\ UNCHANGED <<fs, fsflows, bl_plugins, configs>>

ActivatePlugin(name) ==
    /\ Commit(activate_plugin(name, Manager), "activate_plugin", name)
    /\ UNCHANGED <<fs, fsflows, bl_plugins, configs>>

DeactivatePlugin(name) ==
    /\ name \in DOMAIN plugins
    /\ Commit(deactivate_plugin(name, Manager), "deactivate_plugin", name)
    /\ UNCHANGED <<fs, fsflows, bl_plugins, configs>>

ActivateFlow(name) ==
    /\ Commit(activate_flow(name, Manager), "activate_flow", name)
    /\ UNCHANGED <<fs, fsflows, bl_plugins, configs>>

DeactivateFlow(name) ==
    /\ name \in DOMAIN flows
    /\ Commit(deactivate_flow(name, Manager), "deactivate_flow", name)
    /\ UNCHANGED <<fs, fsflows, bl_plugins, configs>>

ReloadPlugin(name) ==
    /\ name \in DOMAIN plugins
    /\ Commit(reload_plugin_by_name(name, Manager), "reload_plugin_by_name", name)
    /\ UNCHANGED <<fs, fsflows, bl_plugins, configs>>

ActivateNonStartedPlugins ==
    /\ Commit(activate_non_started_plugins(Manager), "activate_non_started_plugins", 0)
    /\ UNCHANGED <<fs, fsflows, bl_plugins, configs>>

RemovePluginsFromPath(root) ==
    /\ \E order \in Orderings(DOMAIN plugin_infos) :
          Commit(remove_plugins_from_path(root, order, Manager),
                 "remove_plugins_from_path", root)
    /\ UNCHANGED <<fs, fsflows, bl_plugins, configs>>

GetAllActivePluginObjectsOrdered ==
    /\ Commit(get_all_active_plugin_objects_ordered(Manager),
              "get_all_active_plugin_objects_ordered", 0)
    /\ UNCHANGED <<fs, fsflows, bl_plugins, configs>>

blacklist_plugin(name) ==
    /\ bl_plugins' = IF is_plugin_blacklisted(name) THEN bl_plugins
                      ELSE get_blacklisted_plugin \cup {name}
    /\ Stored("blacklist_plugin", name)
    /\ UNCHANGED configs

unblacklist_plugin(name) ==
    /\ bl_plugins' = IF ~is_plugin_blacklisted(name) THEN bl_plugins
                      ELSE get_blacklisted_plugin \ {name}
    /\ Stored("unblacklist_plugin", name)
    /\ UNCHANGED configs

set_plugin_configuration(name, obj) ==
    /\ configs' = [configs EXCEPT ![name] = obj]
    /\ Stored("set_plugin_configuration", name)
    /\ UNCHANGED bl_plugins

\* ------------------------------------------------------------------ initial states
\* The dependency lists that a sequence of edges <<from, to>> declares: the
\* targets of the edges leaving name, in the order they are listed.
RECURSIVE Targets(_, _)
Targets(edges, name) ==
    IF edges = <<>> THEN <<>>
    ELSE LET e == Head(edges)
             rest == Targets(Tail(edges), name)
         IN  IF e[1] = name THEN <<e[2]>> \o rest ELSE rest

\* The lists of at most n distinct edges from a plugin to one of targets.
EdgeListsUpTo(n, targets) ==
    {es \in UNION {[1..k -> Names \X targets] : k \in 0..n} :
        \A i, j \in DOMAIN es : i # j => es[i] # es[j]}

EdgeLists(targets) == EdgeListsUpTo(MaxEdges, targets)

InitManager ==
    /\ plugin_places = <<>>
    /\ plugin_infos = <<>>
    /\ plugins = <<>>
    /\ plugins_keys = <<>>
    /\ flows = <<>>
    /\ bl_plugins = {}
    /\ configs = [n \in Names |-> None]
    /\ templates = {}
    /\ ret = [op |-> "init", name |-> 0, exc |-> NoExc, started |-> <<>>,
              errors |-> <<>>, warnings |-> {}, unready |-> {}, visits |-> <<>>,
              failed |-> <<>>, feedback |-> <<>>, result |-> <<>>,
               invalid |-> {}]

\* The ways a manifest or its class can deviate from a clean one.
Faults == {"python_newer", "python2", "errbot_max", "errbot_min",
           "activate_raises", "connect_raises"}

WithFault(info, fault) ==
    CASE fault = "python_newer" -> [info EXCEPT !.python_version = <<3, 9, 0>>]
      [] fault = "python2" -> [info EXCEPT !.python_version = <<2, 7, 0>>]
      [] fault = "errbot_max" -> [info EXCEPT !.errbot_maxversion = <<4, 0, 0>>]
      [] fault = "errbot_min" -> [info EXCEPT !.errbot_minversion = <<6, 0, 0>>]
      [] fault = "activate_raises" -> [info EXCEPT !.class.hooks = "activate_raises"]
      [] fault = "connect_raises" -> [info EXCEPT !.class.hooks = "connect_raises"]
      [] fault = "config_rejected" -> [info EXCEPT !.class.template = TRUE]

\* The assignments of a fault to at most MaxFaulty plugins.
FaultMaps ==
    UNION {[F -> Faults] : F \in {G \in SUBSET Names : Cardinality(G) <= MaxFaulty}}

Manifests(es, faulty) ==
    [n \in Names |->
        IF n \in DOMAIN faulty
        THEN WithFault(PluginInfo(n, Targets(es, n)), faulty[n])
        ELSE PluginInfo(n, Targets(es, n))]

FlowManifests ==
    [FlowNames -> {[name |-> 0, location |-> 1, class |-> [hooks |-> h]] :
                      h \in {"ok", "activate_raises"}}]

\* Every dependency graph among the plugins within the bounds, every manifest
\* clean; no flows.  The manifests are globbed in name order: the graphs are
\* closed under renaming the plugins, so every pairing of a graph with a
\* registry order is among them.
Init ==
    /\ \E es \in EdgeLists(Names) : fs = Manifests(es, <<>>)
    /\ fsflows = <<>>
    /\ plugins_callback_order = <<Wildcard>>
    /\ InitManager

Next ==
    \/ update_plugin_places
    \/ \E name \in Names \cup {Missing} : ActivatePlugin(name)
    \/ \E name \in Names : DeactivatePlugin(name)
    \/ \E name \in Names : ReloadPlugin(name)

Spec == Init /\ [][Next]_vars

\* Graphs that may also name a plugin no manifest declares, with at most
\* MaxFaulty faulty manifests.
InitFaulty ==
    /\ \E es \in EdgeLists(Names \cup {Missing}) : \E faulty \in FaultMaps : fs = Manifests(es, faulty)
    /\ fsflows = <<>>
    /\ plugins_callback_order = <<Wildcard>>
    /\ InitManager

SpecFaulty == InitFaulty /\ [][Next]_vars

\* Bulk activation with a blacklist and flows.
BulkFaults == {"errbot_max", "activate_raises"}

InitBulk ==
    /\ \E es \in EdgeLists(Names \cup {Missing}) : \E faulty \in FaultMaps :
          /\ \A n \in DOMAIN faulty : faulty[n] \in BulkFaults
          /\ fs = Manifests(es, faulty)
    /\ \E ff \in FlowManifests : fsflows = [f \in FlowNames |-> [ff[f] EXCEPT !.name = f]]
    /\ plugins_callback_order = <<Wildcard>>
    /\ InitManager

NextBulk ==
    \/ update_plugin_places
    \/ \E name \in Names : blacklist_plugin(name)
    \/ \E name \in Names : unblacklist_plugin(name)
    \/ ActivateNonStartedPlugins
    \/ \E name \in Names : DeactivatePlugin(name)

SpecBulk == InitBulk /\ [][NextBulk]_vars

\* Clean manifests whose classes all declare a configuration template; the
\* store holds no configuration yet, and configurations are set while the
\* manager runs.
ConfigObjects == {None, "ok"}

InitConfig ==
    /\ \E es \in EdgeLists(Names) :
          fs = [n \in Names |-> [Manifests(es, <<>>)[n] EXCEPT !.class.template = TRUE]]
    /\ fsflows = <<>>
    /\ plugins_callback_order = <<Wildcard>>
    /\ InitManager

NextConfig ==
    \/ update_plugin_places
    \/ \E name \in Names : ActivatePlugin(name)
    \/ \E name \in Names : DeactivatePlugin(name)
    \/ \E name \in Names : \E obj \in ConfigObjects : set_plugin_configuration(name, obj)

SpecConfig == InitConfig /\ [][NextConfig]_vars

\* Clean plugin manifests and flows, activated and deactivated one by one.
InitFlows ==
    /\ \E es \in EdgeLists(Names) : fs = Manifests(es, <<>>)
    /\ \E ff \in FlowManifests : fsflows = [f \in FlowNames |-> [ff[f] EXCEPT !.name = f]]
    /\ plugins_callback_order = <<Wildcard>>
    /\ InitManager

NextFlows ==
    \/ update_plugin_places
    \/ \E name \in Names : ActivatePlugin(name)
    \/ \E name \in Names : DeactivatePlugin(name)
    \/ \E name \in FlowNames : ActivateFlow(name)
    \/ \E name \in FlowNames : DeactivateFlow(name)

SpecFlows == InitFlows /\ [][NextFlows]_vars

\* The callback orderings a manager can be built with: at most MaxOrder
\* distinct entries, each a plugin name (loaded later or not) or the
\* placeholder, which so occurs at most once.
Orders ==
    {o \in UNION {[1..k -> Names \cup {Missing, Wildcard}] : k \in 0..MaxOrder} :
        \A i, j \in DOMAIN o : i # j => o[i] # o[j]}

\* Plugins without dependencies, a manager built with any of the orderings.
InitOrder ==
    /\ fs = Manifests(<<>>, <<>>)
    /\ fsflows = <<>>
    /\ plugins_callback_order \in Orders
    /\ InitManager

NextOrder ==
    \/ update_plugin_places
    \/ \E name \in Names : ActivatePlugin(name)
    \/ \E name \in Names : DeactivatePlugin(name)
    \/ GetAllActivePluginObjectsOrdered

SpecOrder == InitOrder /\ [][NextOrder]_vars

\* What a .plug file of a tree can be: one of the ways of loading, or a well
\* formed manifest of a core plugin.
FileKinds == {"ok", "core", "parse_error", "no_class", "two_classes", "init_raises"}

\* The i-th .plug file: it declares name, lies under root, and has no
\* dependencies; its module is its own.
ManifestFile(i, name, root, kind) ==
    [PluginInfo(name, <<>>) EXCEPT
        !.location = root,
        !.core = (kind = "core"),
        !.load = IF kind = "core" THEN "ok" ELSE kind,
        !.class.module = i]

\* Trees of NumPlugins .plug files under the roots, of every kind, several of
\* which may declare the same name; the files are listed root by root, as
\* discovery globs them.
InitDiscovery ==
    /\ \E names \in [Names -> Names] : \E locs \in [Names -> Roots] :
       \E kinds \in [Names -> FileKinds] :
          /\ \A i, j \in Names : i < j => locs[i] <= locs[j]
          /\ fs = [i \in Names |-> ManifestFile(i, names[i], locs[i], kinds[i])]
    /\ fsflows = <<>>
    /\ plugins_callback_order = <<Wildcard>>
    /\ InitManager

NextDiscovery ==
    \/ update_plugin_places
    \/ \E name \in Names : ActivatePlugin(name)

SpecDiscovery == InitDiscovery /\ [][NextDiscovery]_vars

\* Larger graphs, which may name a plugin no manifest declares, with at most
\* MaxFaulty plugins whose hooks raise or whose class declares a configuration
\* template that rejects the configuration the store holds for it.
ChainFaults == {"activate_raises", "connect_raises", "config_rejected"}

ChainFaultMaps ==
    UNION {[F -> ChainFaults] : F \in {G \in SUBSET Names : Cardinality(G) <= MaxFaulty}}

InitChain ==
    /\ \E es \in EdgeListsUpTo(MaxChainEdges, Names \cup {Missing}) :
       \E faulty \in ChainFaultMaps :
          /\ fs = Manifests(es, faulty)
          /\ configs = [n \in Names |->
                          IF n \in DOMAIN faulty /\ faulty[n] = "config_rejected"
                          THEN "bad" ELSE None]
    /\ fsflows = <<>>
    /\ plugins_callback_order = <<Wildcard>>
    /\ plugin_places = <<>>
    /\ plugin_infos = <<>>
    /\ plugins = <<>>
    /\ plugins_keys = <<>>
    /\ flows = <<>>
    /\ bl_plugins = {}
    /\ templates = {}
    /\ ret = [op |-> "init", name |-> 0, exc |-> NoExc, started |-> <<>>,
              errors |-> <<>>, warnings |-> {}, unready |-> {}, visits |-> <<>>,
              failed |-> <<>>, feedback |-> <<>>, result |-> <<>>,
               invalid |-> {}]

NextChain ==
    \/ update_plugin_places
    \/ \E name \in Names : ActivatePlugin(name)
    \/ \E name \in Names : DeactivatePlugin(name)

SpecChain == InitChain /\ [][NextChain]_vars

\* The trees of SpecDiscovery, with removal of the plugins of a root.
NextRemoval ==
    \/ update_plugin_places
    \/ \E name \in Names : ActivatePlugin(name)
    \/ \E root \in Roots : RemovePluginsFromPath(root)

SpecRemoval == InitDiscovery /\ [][NextRemoval]_vars

\* Every dependency graph among the plugins, the manifests spread over the
\* roots, at most MaxFaulty classes whose hooks raise; every way of calling
\* activation, bulk activation, reload, deactivation and removal.
ReentryFaults == {"activate_raises", "connect_raises"}

InitReentry ==
    /\ \E es \in EdgeLists(Names) : \E faulty \in FaultMaps :
       \E locs \in [Names -> Roots] :
          /\ \A n \in DOMAIN faulty : faulty[n] \in ReentryFaults
          /\ fs = [n \in Names |->
                     [Manifests(es, faulty)[n] EXCEPT !.location = locs[n]]]
    /\ fsflows = <<>>
    /\ plugins_callback_order = <<Wildcard>>
    /\ InitManager

NextReentry ==
    \/ update_plugin_places
    \/ \E name \in Names : ActivatePlugin(name)
    \/ \E name \in Names : DeactivatePlugin(name)
    \/ \E name \in Names : ReloadPlugin(name)
    \/ ActivateNonStartedPlugins
    \/ \E root \in Roots : RemovePluginsFromPath(root)

SpecReentry == InitReentry /\ [][NextReentry]_vars

\* The interpreter versions a manifest can declare: none, or a triple whose
\* major and minor numbers lie one below, at and one above those of the
\* running interpreter (python 2 triples included).
PythonVersions ==
    {NoVersion} \cup
    {<<a, b, c>> : a \in (sys_version[1] - 1)..(sys_version[1] + 1),
                  b \in (sys_version[2] - 1)..(sys_version[2] + 1),
                  c \in 0..MaxPatch}

\* Plugins without dependencies and otherwise clean, each declaring any of the
\* interpreter versions.
InitGate ==
    /\ \E pv \in [Names -> PythonVersions] :
          fs = [n \in Names |-> [PluginInfo(n, <<>>) EXCEPT !.python_version = pv[n]]]
    /\ fsflows = <<>>
    /\ plugins_callback_order = <<Wildcard>>
    /\ InitManager

NextGate ==
    \/ update_plugin_places
    \/ \E name \in Names : ActivatePlugin(name)

SpecGate == InitGate /\ [][NextGate]_vars

\* ------------------------------------------------------------------ graph notions
Loaded == DOMAIN plugins

\* The declared dependencies of a loaded plugin.
DeclaredDeps(n) ==
    IF n \in DOMAIN plugin_infos THEN Range(plugin_infos[n].dependencies) ELSE {}

RECURSIVE Closure(_)
Closure(S) ==
    LET T == S \cup UNION {DeclaredDeps(x) : x \in S} IN
    IF T = S THEN S ELSE Closure(T)

\* The transitive dependency closure of n (n itself only when on a cycle).
DepClosure(n) == Closure(DeclaredDeps(n))

Acyclic == \A n \in Loaded : n \notin DepClosure(n)

\* The members of the cycles reachable from n.
CycleMembers(n) == {m \in {n} \cup DepClosure(n) : m \in DepClosure(m)}

AllDepsLoaded == \A n \in Loaded : DeclaredDeps(n) \subseteq Loaded

GatesPass(n) ==
    /\ check_python_plug_section(plugin_infos[n])
    /\ check_errbot_version(plugin_infos[n])

HooksOk(n) == plugin_infos[n].class.hooks = "ok"

IsActivated(n) == n \in Loaded /\ plugins[n].is_activated

\* ------------------------------------------------------------------ claims
\* C1: with an acyclic dependency graph, every declared dependency loaded, every
\* gate passing and every hook succeeding, activate_plugin(name) on a plugin
\* that was not activated returns with name and its whole transitive
\* dependency closure activated.
C1_ClosureActivated ==
    ( /\ ret.op = "activate_plugin"
      /\ ret.name \in Loaded
      /\ ret.exc # "AlreadyActive"
      /\ Acyclic
      /\ AllDepsLoaded
      /\ \A n \in Loaded : GatesPass(n) /\ HooksOk(n) )
    => /\ ret.exc = NoExc
       /\ \A p \in {ret.name} \cup DepClosure(ret.name) : IsActivated(p)

\* C2 as stated: whenever a cycle is reachable from name, activate_plugin(name)
\* fails with the circular-dependency error and no member of the cycle that
\* was not activated before the call is activated after it.
C2_CycleAlwaysReported ==
    [][ ( /\ ret'.op = "activate_plugin"
          /\ ret'.name \in Loaded
          /\ CycleMembers(ret'.name) # {} )
        => /\ ret'.exc = "Circular"
           /\ \A m \in CycleMembers(ret'.name) :
                ~plugins[m].is_activated => ~plugins'[m].is_activated ]_vars

\* Nothing on the way from name to the cycle fails for another reason: name
\* passes both gates, and no plugin reachable from name declares a
\* dependency that is not loaded, has a raising hook or a rejected
\* configuration.
ResolutionClean(n) ==
    /\ GatesPass(n)
    /\ \A m \in {n} \cup DepClosure(n) :
          m \in Loaded =>
             /\ HooksOk(m)
             /\ ~(plugin_infos[m].class.template /\ configs[m] = "bad")
             /\ DeclaredDeps(m) \subseteq Loaded

\* C2 amended: when a cycle is reachable from name, activate_plugin(name) does
\* not activate name, every member of the cycle that was not activated before
\* the call is not activated after it, and the call raises the
\* circular-dependency error whenever nothing else on the way fails first.
C2_CycleNeverActivated ==
    [][ ( /\ ret'.op = "activate_plugin"
          /\ ret'.name \in Loaded
          /\ CycleMembers(ret'.name) # {} )
        => /\ ~plugins'[ret'.name].is_activated
           /\ \A m \in CycleMembers(ret'.name) :
                ~plugins[m].is_activated => ~plugins'[m].is_activated
           /\ ResolutionClean(ret'.name) => ret'.exc = "Circular" ]_vars

\* C2 witness: a call on a plugin that reaches a real cycle ended with the
\* circular-dependency error.
C2_Witness ==
    /\ ret.op = "activate_plugin"
    /\ ret.name \in Loaded
    /\ CycleMembers(ret.name) # {}
    /\ ret.name \notin CycleMembers(ret.name)
    /\ ret.exc = "Circular"

\* C3: after a successful activate_plugin, every plugin activated during the
\* call records exactly its descriptor's dependency list, and recorded
\* dependencies change only when that plugin is successfully activated.
C3_RecordedDependencies ==
    [][ /\ ( ret'.op = "activate_plugin" /\ ret'.exc = NoExc )
           => \A p \in Loaded :
                (~plugins[p].is_activated /\ plugins'[p].is_activated)
                => plugins'[p].dependencies = plugin_infos'[p].dependencies
        /\ \A p \in Loaded :
              (p \in DOMAIN plugins' /\ plugins'[p].dependencies # plugins[p].dependencies)
              => (~plugins[p].is_activated /\ plugins'[p].is_activated) ]_vars

\* C4: activate_plugin returns without raising only with the plugin activated,
\* and every call that leaves the plugin not activated raises a
\* PluginActivationException.
C4_ReturnMeansActivated ==
    ret.op = "activate_plugin"
    => /\ ret.exc = NoExc => IsActivated(ret.name)
       /\ ~IsActivated(ret.name) => PluginActivationException(ret.exc)

\* C5: a plugin whose descriptor violates a compatibility gate is never
\* activated and never has its hooks invoked, whatever the operation.
C5_IncompatibleNeverActivated ==
    \A p \in Loaded :
        ~GatesPass(p) => ~plugins[p].is_activated /\ p \notin Range(ret.started)

\* C6: the bulk pass leaves every plugin that was blacklisted and not activated
\* at its start not activated.
C6_BlacklistedNotActivated ==
    [][ ret'.op = "activate_non_started_plugins"
        => \A p \in Loaded :
             (p \in bl_plugins /\ ~plugins[p].is_activated)
             => ~plugins'[p].is_activated ]_vars

\* C7: with an acyclic graph, every dependency loaded, nothing blacklisted and
\* no failing gate or hook, one bulk pass activates every loaded plugin and
\* returns an empty error text.
C7_BulkActivatesAll ==
    ( /\ ret.op = "activate_non_started_plugins"
      /\ Acyclic
      /\ AllDepsLoaded
      /\ bl_plugins = {}
      /\ \A n \in Loaded : GatesPass(n) /\ HooksOk(n)
      /\ \A f \in DOMAIN flows : flows[f].class.hooks = "ok" )
    => /\ \A p \in Loaded : plugins[p].is_activated
       /\ ret.errors = <<>>

\* activate_plugin(p) alone, from the current state, would activate p.
CanBeActivated(p) ==
    LET r == activate_plugin(p, Manager) IN
    r.exc = NoExc /\ r.plugins[p].is_activated

C9_ReloadPreserves ==
    [][ ( /\ ret'.op = "reload_plugin_by_name"
          /\ plugins[ret'.name].is_activated )
        => /\ ret'.exc = NoExc
           /\ plugins'[ret'.name] = plugins[ret'.name] ]_vars

\* C10: deactivate_plugin(name) leaves the activation state and the recorded
\* dependencies of every other plugin as they were.
C10_DeactivateFrame ==
    [][ ret'.op = "deactivate_plugin"
        => \A q \in Loaded \ {ret'.name} :
             /\ q \in DOMAIN plugins'
             /\ plugins'[q].is_activated = plugins[q].is_activated
             /\ plugins'[q].dependencies = plugins[q].dependencies ]_vars

\* C10 witness: an activated plugin was deactivated while a plugin that
\* declares it as a dependency stays activated.
C10_Witness ==
    /\ ret.op = "deactivate_plugin"
    /\ ret.warnings = {}
    /\ ~plugins[ret.name].is_activated
    /\ \E q \in Loaded \ {ret.name} :
          plugins[q].is_activated /\ ret.name \in DeclaredDeps(q)

\* C11: activate_plugin(name) on an activated plugin raises the 'already
\* activate' PluginActivationException and changes nothing: no hook sequence
\* is started, and every instance (activation state, recorded dependencies,
\* configuration), every descriptor, the stored configurations and the
\* registered template paths are as before the call.
C11_AlreadyActiveNoOp ==
    [][ ( /\ ret'.op = "activate_plugin"
          /\ ret'.name \in Loaded
          /\ plugins[ret'.name].is_activated )
        => /\ ret'.exc = "AlreadyActive"
           /\ ret'.started = <<>>
           /\ plugins' = plugins
           /\ plugin_infos' = plugin_infos
           /\ configs' = configs
           /\ templates' = templates ]_vars

\* C11 witness: the call was refused on an activated plugin that runs with a
\* configuration other than the stored one and declares a dependency that is
\* not activated.
C11_Witness ==
    /\ ret.op = "activate_plugin"
    /\ ret.exc = "AlreadyActive"
    /\ plugins[ret.name].is_activated
    /\ plugins[ret.name].config = "ok"
    /\ configs[ret.name] = None
    /\ \E d \in DeclaredDeps(ret.name) : ~plugins[d].is_activated

\* C12: deactivate_plugin(name) on a plugin that is not activated, and
\* deactivate_flow(name) on a flow that is not activated, raise an
\* already-in-state PluginActivationException and change no state.
C12_InactiveRejected ==
    [][ /\ ( ret'.op = "deactivate_plugin" /\ ~plugins[ret'.name].is_activated )
           => /\ PluginActivationException(ret'.exc)
              /\ plugins' = plugins /\ flows' = flows /\ templates' = templates
        /\ ( ret'.op = "deactivate_flow" /\ ~flows[ret'.name].is_activated )
           => /\ ret'.exc = "FlowAlreadyInactive"
              /\ plugins' = plugins /\ flows' = flows /\ templates' = templates ]_vars

\* The activated plugins that order does not name, in registry order.
Unnamed(order) ==
    SelectSeq(plugins_keys, LAMBDA n : n \notin Range(order) /\ plugins[n].is_activated)

RECURSIVE NamedThenUnnamed(_, _)
\* The entries of order from the i-th on, each replaced by what it stands for:
\* an activated plugin by itself, the placeholder by the unnamed activated
\* plugins, anything else by nothing.
NamedThenUnnamed(order, i) ==
    IF i > Len(order) THEN <<>>
    ELSE ( IF order[i] = Wildcard THEN Unnamed(order)
           ELSE IF IsActivated(order[i]) THEN <<order[i]>>
           ELSE <<>> ) \o NamedThenUnnamed(order, i + 1)

\* C13: with an ordering of distinct names and at most one placeholder,
\* get_all_active_plugin_objects_ordered returns, without raising, exactly the
\* activated plugins, each once: the named ones in the order of the spec, the
\* others in registry order at the placeholder (at the end when the spec has
\* none); named entries that are not activated plugins are left out.
C13_OrderedBroadcast ==
    [][ ret'.op = "get_all_active_plugin_objects_ordered"
        => /\ ret'.exc = NoExc
           /\ ret'.result =
                 IF Wildcard \in Range(plugins_callback_order)
                 THEN NamedThenUnnamed(plugins_callback_order, 1)
                 ELSE NamedThenUnnamed(plugins_callback_order, 1)
                        \o Unnamed(plugins_callback_order)
           /\ Range(ret'.result) = {p \in Loaded : plugins[p].is_activated}
           /\ Len(ret'.result) = Cardinality(Range(ret'.result)) ]_vars

\* ------------------------------------------------------------------ discovery notions
\* The i-th file parses, so that it declares a name.
Declares(i, name) == fs[i].load # "parse_error" /\ fs[i].name = name

\* The first file, in the order discovery reads them, that declares name.
FirstManifest(name) ==
    CHOOSE i \in DOMAIN fs :
        Declares(i, name) /\ \A j \in DOMAIN fs : j < i => ~Declares(j, name)

\* The i-th file parses and its name is neither registered nor declared by a
\* file read before it.
NonDuplicate(i) ==
    /\ fs[i].load # "parse_error"
    /\ fs[i].name \notin DOMAIN plugin_infos
    /\ \A j \in DOMAIN fs : j < i => ~Declares(j, fs[i].name)

\* The core allow-list keeps the i-th file from being instantiated.
CoreExcluded(i) ==
    core_plugins # {} /\ fs[i].core /\ fs[i].name \notin core_plugins

\* Loading the i-th file fails in this pass.
LoadFails(i) ==
    \/ fs[i].load = "parse_error"
    \/ NonDuplicate(i) /\ ~CoreExcluded(i) /\ fs[i].load \in {"no_class", "init_raises"}

\* What loading the i-th file writes to the feedback map in this pass.
Message(i) ==
    IF fs[i].load = "parse_error" THEN "traceback"
    ELSE IF ~NonDuplicate(i) \/ CoreExcluded(i) THEN "nothing"
    ELSE CASE fs[i].load = "no_class" -> "no_plugin"
           [] fs[i].load = "two_classes" -> "more_than_one"
           [] fs[i].load = "init_raises" -> "traceback"
           [] OTHER -> "nothing"

\* The files under root that write to the feedback map in this pass.
Reporting(root) ==
    {i \in DOMAIN fs : fs[i].location = root /\ Message(i) # "nothing"}

\* C14: once discovery has run, every name that two or more manifests declare
\* has an instance in the registry, and instance and descriptor are those of
\* the first manifest read.
C14_FirstManifestWins ==
    plugin_places # <<>>
    => \A name \in Names :
         Cardinality({i \in DOMAIN fs : Declares(i, name)}) >= 2
         => /\ name \in DOMAIN plugins
            /\ plugins[name].class = fs[FirstManifest(name)].class
            /\ name \in DOMAIN plugin_infos
            /\ plugin_infos[name] = fs[FirstManifest(name)]

\* C15: a further discovery over the same roots leaves the descriptor
\* registry and the instance registry as they were: the same names, the same
\* descriptors and instances, in the same registry order, every activation
\* state unchanged.
C15_DiscoveryIdempotent ==
    [][ ( ret'.op = "update_plugin_places" /\ plugin_places # <<>> )
        => /\ plugin_infos' = plugin_infos
           /\ plugins' = plugins
           /\ plugins_keys' = plugins_keys
           /\ flows' = flows
           /\ plugin_places' = plugin_places ]_vars

\* C15 witness: a discovery ended with a plugin activated before it in the
\* registry, over a tree in which two manifests declare one name and a
\* descriptor has no instance.
C15_Witness ==
    /\ ret.op = "update_plugin_places"
    /\ \E p \in Loaded : plugins[p].is_activated
    /\ \E i, j \in DOMAIN fs : i # j /\ Declares(i, fs[i].name) /\ Declares(j, fs[i].name)
    /\ DOMAIN plugin_infos # DOMAIN plugins

Chain == {ret.failed[x][1] : x \in DOMAIN ret.failed}

\* The dependency at which the innermost of these loops stood.
FailingDependency ==
    plugin_infos[ret.failed[1][1]].dependencies[ret.failed[1][2]]

\* C17: activate_plugin raises the circular-dependency error only for a
\* dependency that is on the recursion chain (the target or an ancestor of the
\* plugin being resolved), hence only when a cycle is reachable from name.
C17_CircularOnlyOnCycle ==
    ( ret.op = "activate_plugin" /\ ret.exc = "Circular" )
    => /\ FailingDependency \in Chain
       /\ CycleMembers(ret.name) # {}

\* C18: when a step of the activate phase of _activate_plugin raises, the
\* plugin whose hooks were running is not activated and its template path is
\* not registered once the error has reached the caller; in every state a
\* template path is registered only for an activated plugin.
C18_TemplateOnlyWhileActivated ==
    /\ ( ret.op = "activate_plugin" /\ ret.exc = "FailedToStart" /\ ret.started # <<>> )
       => LET p == ret.started[Len(ret.started)] IN
          ~plugins[p].is_activated /\ p \notin templates
    /\ \A p \in templates : IsActivated(p)

\* The place of x in a sequence without repetitions.
Position(seq, x) == CHOOSE i \in DOMAIN seq : seq[i] = x

\* The dependency a visit <<name, i, act>> looked at.
Visited(v) == plugin_infos[v[1]].dependencies[v[2]]

\* The plugins whose dependencies the call resolved.
Resolved == {ret.visits[a][1] : a \in DOMAIN ret.visits}

\* C19 as stated: in an activate_plugin call (a reload's included) no hook
\* sequence is started while a declared dependency of its plugin is not
\* activated, and the dependencies of one plugin that the call activated were
\* activated in the order its descriptor declares them.
C19_DeclaredOrder ==
    ret.op \in {"activate_plugin", "reload_plugin_by_name"}
    => /\ ret.unready = {}
       /\ \A n \in Resolved :
            LET depends_on == plugin_infos[n].dependencies IN
            \A i, j \in DOMAIN depends_on :
               ( /\ i < j
                 /\ depends_on[i] \in Range(ret.started)
                 /\ depends_on[j] \in Range(ret.started) )
               => Position(ret.started, depends_on[i]) < Position(ret.started, depends_on[j])

\* C19 amended: no hook sequence is started while a declared dependency of
\* its plugin is not activated, and the dependencies that the loop of one
\* plugin found not activated and had to activate were activated in the order
\* its descriptor declares them.
C19_DependenciesFirstInOrder ==
    ret.op \in {"activate_plugin", "reload_plugin_by_name"}
    => /\ ret.unready = {}
       /\ \A a, b \in DOMAIN ret.visits :
            LET v == ret.visits[a]
                w == ret.visits[b]
            IN  ( /\ v[1] = w[1] /\ v[2] < w[2]
                  /\ v[3] /\ w[3]
                  /\ Visited(v) \in Range(ret.started)
                  /\ Visited(w) \in Range(ret.started) )
                => Position(ret.started, Visited(v)) < Position(ret.started, Visited(w))

\* C19 witness: a call activated two dependencies of its target, in the
\* declared order, and then the target.
C19_Witness ==
    /\ ret.op = "activate_plugin"
    /\ ret.exc = NoExc
    /\ Len(ret.started) >= 3
    /\ ret.started[Len(ret.started)] = ret.name
    /\ \E a, b \in DOMAIN ret.visits :
          /\ ret.visits[a][1] = ret.name /\ ret.visits[b][1] = ret.name
          /\ ret.visits[a][2] < ret.visits[b][2]
          /\ ret.visits[a][3] /\ ret.visits[b][3]
    /\ \A p \in Range(ret.started) : plugins[p].is_activated

\* C20 as stated: when an exception leaves the dependency loop of a plugin at
\* its k-th declared dependency, the dependencies before k that the call
\* activated are activated, the dependencies after k are not visited by that
\* loop and none of them is activated by the call, and neither that plugin
\* (each plugin on the chain, the target last) is activated.
C20_LaterSiblingsUntouched ==
    [][ ( ret'.op = "activate_plugin" /\ ret'.failed # <<>> )
        => \A x \in DOMAIN ret'.failed :
             LET n == ret'.failed[x][1]
                 k == ret'.failed[x][2]
                 depends_on == plugin_infos[n].dependencies
             IN  /\ \A j \in 1..(k - 1) :
                        depends_on[j] \in Range(ret'.started)
                        => plugins'[depends_on[j]].is_activated
                 /\ \A j \in (k + 1)..Len(depends_on) :
                        /\ \A a \in DOMAIN ret'.visits :
                              ~(ret'.visits[a][1] = n /\ ret'.visits[a][2] = j)
                        /\ depends_on[j] \in Loaded
                           => ( plugins'[depends_on[j]].is_activated
                                => plugins[depends_on[j]].is_activated )
                 /\ ~plugins'[n].is_activated ]_vars

\* C20 amended: the same, except that a dependency after k may have been
\* activated by the call before the failure, because it is, or is required
\* by, the failing dependency or one before it in the loop of a plugin on the
\* chain.
C20_AbortKeepsEarlier ==
    [][ ( ret'.op = "activate_plugin" /\ ret'.failed # <<>> )
        => \A x \in DOMAIN ret'.failed :
             LET n == ret'.failed[x][1]
                 k == ret'.failed[x][2]
                 depends_on == plugin_infos[n].dependencies
             IN  /\ \A j \in 1..(k - 1) :
                        depends_on[j] \in Range(ret'.started)
                        => plugins'[depends_on[j]].is_activated
                 /\ \A j \in (k + 1)..Len(depends_on) :
                        /\ \A a \in DOMAIN ret'.visits :
                              ~(ret'.visits[a][1] = n /\ ret'.visits[a][2] = j)
                        /\ ( /\ depends_on[j] \in Loaded
                             /\ plugins'[depends_on[j]].is_activated
                             /\ ~plugins[depends_on[j]].is_activated )
                           => \E y \in DOMAIN ret'.failed :
                              \E i \in 1..ret'.failed[y][2] :
                                 LET e == plugin_infos[ret'.failed[y][1]].dependencies[i] IN
                                 depends_on[j] \in {e} \cup DepClosure(e)
                 /\ ~plugins'[n].is_activated ]_vars

\* C20 witness: a call failed two levels deep, at a dependency that is not
\* the first of its loop nor the last: the one before it was activated by the
\* call and is activated, one after it is loaded and not activated, and the
\* target is not activated.
C20_Witness ==
    /\ ret.op = "activate_plugin"
    /\ Len(ret.failed) >= 2
    /\ ~plugins[ret.name].is_activated
    /\ \E x \in DOMAIN ret.failed :
          LET n == ret.failed[x][1]
              k == ret.failed[x][2]
              depends_on == plugin_infos[n].dependencies
          IN  /\ k >= 2 /\ Len(depends_on) > k
              /\ depends_on[k - 1] \in Range(ret.started)
              /\ plugins[depends_on[k - 1]].is_activated
              /\ \E j \in (k + 1)..Len(depends_on) :
                    depends_on[j] \in Loaded /\ ~plugins[depends_on[j]].is_activated

\* The reference predicate of the interpreter gate: no declared version, or
\* (3, 0, 0) <= declared <= running.
MinimumVersionAccepted(version) ==
    \/ version = NoVersion
    \/ /\ ~TupleLess(version, PY3)
       /\ ~TupleLess(sys_version, version)

\* C21: check_python_plug_section accepts a descriptor exactly when it declares
\* no interpreter version or a triple that is at least (3, 0, 0) and at most
\* the running interpreter's, the running version itself included.
C21_GateIsMinimum ==
    \A n \in DOMAIN plugin_infos :
        check_python_plug_section(plugin_infos[n])
        <=> MinimumVersionAccepted(plugin_infos[n].python_version)

\* C22: remove_plugins_from_path(root) completes without error and leaves no
\* descriptor and no instance of a manifest under root (nor its template
\* path, the activated ones having been deactivated), while every plugin
\* located under another root keeps its descriptor, its instance and its
\* activation state.
C22_RemovalPurgesRoot ==
    [][ ret'.op = "remove_plugins_from_path"
        => LET root == ret'.name IN
           /\ ret'.exc = NoExc
           /\ \A n \in DOMAIN plugin_infos :
                 IF plugin_infos[n].location = root
                 THEN /\ n \notin DOMAIN plugin_infos'
                      /\ n \notin DOMAIN plugins'
                      /\ n \notin templates'
                 ELSE /\ n \in DOMAIN plugin_infos'
                      /\ plugin_infos'[n] = plugin_infos[n]
                      /\ n \in DOMAIN plugins
                         => n \in DOMAIN plugins' /\ plugins'[n] = plugins[n] ]_vars

\* C23: no call enters _activate_plugin on an instance that is already
\* activated: the 'Internal Error, invalid activated state' guard never fires.
C23_NoReentrantActivation == ret.invalid = {}

\* C23 witness: a call started hook sequences and came, in a dependency loop,
\* upon a dependency that was already activated, which it left alone.
C23_Witness ==
    /\ ret.op \in {"activate_plugin", "reload_plugin_by_name",
                   "activate_non_started_plugins"}
    /\ ret.started # <<>>
    /\ \E a \in DOMAIN ret.visits :
          LET dep_name == plugin_infos[ret.visits[a][1]].dependencies[ret.visits[a][2]] IN
          /\ ~ret.visits[a][3]
          /\ dep_name \in DOMAIN plugins
          /\ plugins[dep_name].is_activated
          /\ dep_name \notin Range(ret.started)
    /\ ret.invalid = {}
====
